---- MODULE Spec2Model ----
(***************************************************************************)
(* A model of the posting service: the account and post services, the JWT  *)
(* service, the TTL response cache and the HTTP handlers, with requests    *)
(* served concurrently by threadpool workers (the handlers are plain `def` *)
(* functions, so each request runs on its own thread and the threads       *)
(* interleave between statements).                                         *)
(***************************************************************************)
EXTENDS Integers, Sequences, FiniteSets, TLC

VARIABLES
    now,        \* the UTC clock, in seconds since the service started
    tz,         \* the UTC offset of the server's local time, in seconds
    users,      \* table "users": sequence of rows [id, email, password]
    posts,      \* table "posts": sequence of rows [id, user_id, text]
    nextPost,   \* number of post ids generated so far (uuid4 never repeats)
    cache,      \* endpoints.cache: sequence of links [key, value, expires]
    pc,         \* per worker: the statement it is about to run
    req,        \* per worker: the request it serves
    loc,        \* per worker: the local variables of the handler
    resp,       \* per worker: the response of the request it served last
    nreq,       \* number of requests received so far
    issued,     \* tokens handed out, each with its subject and issue time
    registered, \* history: email -> password of its first successful sign up
    checked,    \* the last token presented to the JWT service and the answers
    hist        \* history: the owner of every post created, and when each
                \* cache key was last stored

vars == <<now, tz, users, posts, nextPost, cache, pc, req, loc, resp, nreq,
          issued, registered, checked, hist>>

(***************************************************************************)
(* Bounds of the model                                                     *)
(***************************************************************************)
MaxRequests == 4
MaxPosts == 2
MaxTime == 14400
MaxTokens == 2
MaxUsers == 102

Workers == {"w1", "w2"}
Emails == {"a@x.com", "b@x.com"}
Passwords == {"pw1", "pw2"}
Salts == {"s1"}
Texts == {"hello"}
TzOffsets == {-18000, 0}
TokenTzOffsets == TzOffsets \cup {3600}
Subjects == {"u1", "u2"}
TickSteps == {3600, 5400}

(***************************************************************************)
(* Configuration (app/config.py)                                           *)
(***************************************************************************)
JWT_KEY == "JWT_KEY"
JWT_ALGORITHM == "HS256"
JWT_TOKEN_INVALIDATION_TIME == 60 * 60 * 3
PASSWORD_HASHING_ALGORITHM == "bcrypt"
PAYLOAD_MAX_SIZE == 1000000
CACHE_ITEM_LIMIT == 100
CACHE_TIME_TO_LIVE == 60 * 5

\* Python's None where a string is expected, and where a row or dict is.
None == "None"
Absent == [absent |-> TRUE]

HTTP_200_OK == 200
HTTP_201_CREATED == 201
HTTP_400_BAD_REQUEST == 400
HTTP_401_UNAUTHORIZED == 401
HTTP_404_NOT_FOUND == 404
HTTP_413_REQUEST_ENTITY_TOO_LARGE == 413
HTTP_500_INTERNAL_SERVER_ERROR == 500

(***************************************************************************)
(* Credential hasher: passlib CryptContext(schemes = ["bcrypt"]).  The     *)
(* digest is a function of the salt and the plaintext; hash draws a fresh  *)
(* salt, verify recomputes the digest under the salt stored in the hash.   *)
(***************************************************************************)
Digest(salt, password) == <<salt, password>>

pwd_hash(password, salt) ==
    [scheme |-> PASSWORD_HASHING_ALGORITHM, salt |-> salt,
     digest |-> Digest(salt, password)]

pwd_verify(password, hashed) == hashed.digest = Digest(hashed.salt, password)

(***************************************************************************)
(* Token service (services.JWT over PyJWT).  A token is the signed claim   *)
(* set; the signature binds the claim set to the key.                      *)
(***************************************************************************)
Sign(payload, key, algorithm) ==
    [key |-> key, alg |-> algorithm, payload |-> payload]

\* jwt.encode turns a datetime "exp" into a UNIX timestamp with
\* timegm(exp.utctimetuple()): a naive datetime is read as if it were UTC.
\* `expire` is given as the reading of the wall clock that the datetime holds.
jwt_encode(payload, key, algorithm) ==
    [wf |-> TRUE, payload |-> payload, sig |-> Sign(payload, key, algorithm)]

\* datetime.now() is the naive LOCAL time: the UTC clock plus the UTC offset.
datetime_now(utc, offset) == utc + offset

create_token(data, utc, offset) ==
    LET expire == datetime_now(utc, offset) + JWT_TOKEN_INVALIDATION_TIME
        data_to_encode == [sub |-> data.sub, exp |-> expire]
    IN  jwt_encode(data_to_encode, JWT_KEY, JWT_ALGORITHM)

\* jwt.decode: the PyJWTError it raises, or the payload.
jwt_decode(token, key, algorithm, utc) ==
    IF ~token.wf
        THEN [error |-> "DecodeError", payload |-> Absent]
    ELSE IF token.sig # Sign(token.payload, key, algorithm)
        THEN [error |-> "InvalidSignatureError", payload |-> Absent]
    ELSE IF token.payload.exp <= utc
        THEN [error |-> "ExpiredSignatureError", payload |-> Absent]
    ELSE [error |-> None, payload |-> token.payload]

PyJWTError ==
    {"DecodeError", "InvalidSignatureError", "ExpiredSignatureError"}

\* A mutant of _decode_token: the expiry error is not among those caught and
\* the payload is used regardless.
decode_token_unexpired(token, utc) ==
    LET r == jwt_decode(token, JWT_KEY, JWT_ALGORITHM, utc)
    IN  IF r.error \in PyJWTError \ {"ExpiredSignatureError"} THEN Absent
        ELSE token.payload

decode_token(token, utc) ==
    LET r == jwt_decode(token, JWT_KEY, JWT_ALGORITHM, utc)
    IN  IF r.error \in PyJWTError THEN Absent ELSE r.payload

validate_token(token, utc) == decode_token(token, utc) # Absent

get_user_id(token, utc) ==
    LET payload == decode_token(token, utc)
    IN  IF payload # Absent /\ payload.sub # None THEN payload.sub ELSE None

\* The credentials a client can present when no token was issued to it.
NoToken ==
    [wf |-> FALSE, payload |-> [sub |-> None, exp |-> 0],
     sig |-> Sign([sub |-> None, exp |-> 0], None, None)]

(***************************************************************************)
(* Storage (db/models.py, db/repositories.py)                              *)
(***************************************************************************)
uuid4(prefix, n) == prefix \o ToString(n)

\* A mutant of UserRepository_get_by_email: the filter is on the id column.
get_by_email_filters_id(table, email) ==
    LET hits == SelectSeq(table, LAMBDA row: row.id = email)
    IN  IF hits = <<>> THEN Absent ELSE Head(hits)

\* Query.first() over a filter: the first matching row of the table, or None.
UserRepository_get_by_email(table, email) ==
    LET hits == SelectSeq(table, LAMBDA row: row.email = email)
    IN  IF hits = <<>> THEN Absent ELSE Head(hits)

\* A mutant of UserRepository_create: the row of an email already stored is
\* written over (session.merge in place of session.add).
create_merges(table, email, password) ==
    IF \E i \in 1..Len(table) : table[i].email = email
        THEN LET i == CHOOSE j \in 1..Len(table) : table[j].email = email
                 user == [table[i] EXCEPT !.password = password]
             IN  [error |-> None, table |-> [table EXCEPT ![i] = user],
                  user |-> user]
    ELSE LET user == [id |-> uuid4("u", Len(table) + 1), email |-> email,
                      password |-> password]
         IN  [error |-> None, table |-> Append(table, user), user |-> user]

\* A mutant of UserRepository_create: the email column is not unique.
create_unchecked(table, email, password) ==
    LET user == [id |-> uuid4("u", Len(table) + 1), email |-> email,
                 password |-> password]
    IN  [error |-> None, table |-> Append(table, user), user |-> user]

\* users.email is declared unique: the commit of a second row with the same
\* email raises IntegrityError and the row is rolled back.
UserRepository_create(table, email, password) ==
    IF \E i \in 1..Len(table) : table[i].email = email
        THEN [error |-> "IntegrityError", table |-> table, user |-> Absent]
    ELSE LET user == [id |-> uuid4("u", Len(table) + 1), email |-> email,
                      password |-> password]
         IN  [error |-> None, table |-> Append(table, user), user |-> user]

\* posts.user_id is NOT NULL and references users.id: a row that breaks
\* either raises IntegrityError at the commit.
PostRepository_create(table, parents, n, user_id, text) ==
    IF user_id = None \/ ~\E i \in 1..Len(parents) : parents[i].id = user_id
        THEN [error |-> "IntegrityError", table |-> table, post |-> Absent]
    ELSE LET post == [id |-> uuid4("p", n), user_id |-> user_id, text |-> text]
         IN  [error |-> None, table |-> Append(table, post), post |-> post]

\* A mutant of PostRepository_get_list_by_user: the query has no filter.
get_list_unfiltered(table, user_id) == table

PostRepository_get_list_by_user(table, user_id) ==
    SelectSeq(table, LAMBDA row: row.user_id = user_id)

PostRepository_get_by_id(table, post_id) ==
    LET hits == SelectSeq(table, LAMBDA row: row.id = post_id)
    IN  IF hits = <<>> THEN Absent ELSE Head(hits)

\* A mutant of PostRepository_delete_row: the row is marked for deletion
\* and never removed.
delete_row_uncommitted(table, post) == table

PostRepository_delete_row(table, post) ==
    SelectSeq(table, LAMBDA row: row.id # post.id)

\* Post.get_list_of_posts: each row projected to PostResponse(post_id, text).
Post_get_list_of_posts(table, user_id) ==
    LET list_of_posts == PostRepository_get_list_by_user(table, user_id)
    IN  [i \in 1..Len(list_of_posts) |->
            [post_id |-> list_of_posts[i].id, text |-> list_of_posts[i].text]]

(***************************************************************************)
(* Response cache: cachetools.TTLCache(maxsize, ttl), a list of links in   *)
(* insertion order, each with its expiry.  It takes no lock.               *)
(***************************************************************************)
hashkey(user_id) == <<user_id>>

cache_expire(c, time) == SelectSeq(c, LAMBDA link: time < link.expires)

\* A mutant of cache_contains: a key is found whatever its age.
contains_any_age(c, key, time) == \E i \in 1..Len(c) : c[i].key = key

cache_contains(c, key, time) ==
    \E i \in 1..Len(c) : c[i].key = key /\ time < c[i].expires

\* cache[key]: the value, or KeyError for a missing or expired key.
cache_getitem(c, key, time) ==
    IF cache_contains(c, key, time)
        THEN [error |-> None,
              value |-> (CHOOSE link \in {c[i] : i \in 1..Len(c)} :
                            link.key = key).value]
    ELSE [error |-> "KeyError", value |-> <<>>]

RECURSIVE cache_evict(_, _)
cache_evict(c, maxsize) ==
    IF Len(c) >= maxsize /\ c # <<>> THEN cache_evict(Tail(c), maxsize) ELSE c

\* A mutant of cache_setitem: no link is evicted to make room.
setitem_unbounded(c, key, value, time) ==
    LET live == cache_expire(c, time)
        others == SelectSeq(live, LAMBDA link: link.key # key)
    IN  Append(others, [key |-> key, value |-> value,
                        expires |-> time + CACHE_TIME_TO_LIVE])

\* cache[key] = value: expired links are dropped, the key's old link is
\* replaced, the oldest links make room, the new link goes last.
cache_setitem(c, key, value, time) ==
    LET live == cache_expire(c, time)
        others == SelectSeq(live, LAMBDA link: link.key # key)
        room == IF Len(others) = Len(live)
                    THEN cache_evict(others, CACHE_ITEM_LIMIT) ELSE others
    IN  Append(room, [key |-> key, value |-> value,
                      expires |-> time + CACHE_TIME_TO_LIVE])

\* cache.pop(key, None): the links of one key are dropped.
cache_pop(c, key) == SelectSeq(c, LAMBDA link: link.key # key)

\* cache.clear(): every link is dropped.
cache_clear(c) == <<>>

(***************************************************************************)
(* Account manager (services.User)                                         *)
(***************************************************************************)
\* A mutant of User_verify_credentials: an unknown email is reported apart
\* from a wrong password.
verify_credentials_tells(user, password) ==
    IF user = Absent THEN "NoSuchUser"
    ELSE IF pwd_verify(password, user.password) THEN "True" ELSE "False"

\* User.verify_credentials, given the row that get_by_email found.
User_verify_credentials(user, password) ==
    IF user = Absent THEN "False"
    ELSE IF pwd_verify(password, user.password) THEN "True" ELSE "False"

(***************************************************************************)
(* Requests, responses and the gates (routing/dependencies.py)             *)
(***************************************************************************)
NoReq ==
    [op |-> "none", email |-> None, password |-> None, token |-> NoToken,
     size |-> 0, text |-> None, id |-> None]

NoLoc ==
    [user |-> Absent, hashed |-> Absent, ret |-> None, user_id |-> None,
     post |-> Absent, list_of_posts |-> <<>>]

NoResp == [status |-> 0, detail |-> None, body |-> Absent]

HTTPException(status_code, detail) ==
    [status |-> status_code, detail |-> detail, body |-> Absent]

Response(status_code, body) ==
    [status |-> status_code, detail |-> None, body |-> body]

\* Every handler body is wrapped in try: ... except Exception: raise 500.
\* HTTPException is an Exception, so the handler's own 400, 401 and 404,
\* raised inside the try, are caught as well.
try_except(exception) ==
    HTTPException(HTTP_500_INTERNAL_SERVER_ERROR,
                  "Internal server error occurred")

dependencies_validate_token(token, utc) ==
    IF ~validate_token(token, utc)
        THEN HTTPException(HTTP_401_UNAUTHORIZED, "Invalid or expired token")
    ELSE NoResp

validate_payload_size(size) ==
    IF size > PAYLOAD_MAX_SIZE
        THEN HTTPException(HTTP_413_REQUEST_ENTITY_TOO_LARGE,
                           "Request is too large")
    ELSE NoResp

\* A mutant of Gate: delete_post is routed without the token dependency.
GateOpenDelete(request, utc) ==
    IF request.op \in {"sign_up", "login", "delete_post"} THEN NoResp
    ELSE IF dependencies_validate_token(request.token, utc) # NoResp
        THEN dependencies_validate_token(request.token, utc)
    ELSE IF request.op = "add_post" THEN validate_payload_size(request.size)
    ELSE NoResp

\* The dependencies of a route are resolved in the order of its signature:
\* the token first, then (add_post only) the payload size.
Gate(request, utc) ==
    IF request.op \in {"sign_up", "login"} THEN NoResp
    ELSE IF dependencies_validate_token(request.token, utc) # NoResp
        THEN dependencies_validate_token(request.token, utc)
    ELSE IF request.op = "add_post" THEN validate_payload_size(request.size)
    ELSE NoResp

FirstStatement(op) ==
    CASE op = "sign_up" -> "su_check"
      [] op = "login" -> "li_verify"
      [] op = "add_post" -> "ap_insert"
      [] op = "get_list_of_posts" -> "gl_member"
      [] op = "delete_post" -> "dp_find"

Tokens == {i.token : i \in issued} \cup {NoToken}
Sizes == {PAYLOAD_MAX_SIZE, PAYLOAD_MAX_SIZE + 1}
PostIds == {uuid4("p", n) : n \in 1..MaxPosts}

(***************************************************************************)
(* The state after construction                                            *)
(***************************************************************************)
NoHist == [owner |-> {}, stored |-> {}]

NoCheck ==
    [seen |-> FALSE, token |-> NoToken, at |-> 0, valid |-> FALSE,
     user_id |-> None]

Init ==
    /\ now = 0
    /\ tz \in TzOffsets
    /\ users = <<>>
    /\ posts = <<>>
    /\ nextPost = 0
    /\ cache = <<>>
    /\ pc = [w \in Workers |-> "idle"]
    /\ req = [w \in Workers |-> NoReq]
    /\ loc = [w \in Workers |-> NoLoc]
    /\ resp = [w \in Workers |-> NoResp]
    /\ nreq = 0
    /\ issued = {}
    /\ registered = [e \in Emails |-> None]
    /\ checked = NoCheck
    /\ hist = NoHist

(***************************************************************************)
(* A worker takes a request: the gates run, then the handler starts.       *)
(***************************************************************************)
Accept(w, request) ==
    /\ pc[w] \in {"idle", "done"}
    /\ nreq' = nreq + 1
    /\ req' = [req EXCEPT ![w] = request]
    /\ loc' = [loc EXCEPT ![w] = NoLoc]
    /\ resp' = [resp EXCEPT ![w] = Gate(request, now)]
    /\ pc' = [pc EXCEPT ![w] = IF Gate(request, now) # NoResp THEN "done"
                                ELSE FirstStatement(request.op)]
    /\ UNCHANGED <<now, tz, users, posts, nextPost, cache, issued,
                   registered, checked, hist>>

Receive(w, request) == nreq < MaxRequests /\ Accept(w, request)

Finish(w, response, locals) ==
    /\ pc' = [pc EXCEPT ![w] = "done"]
    /\ resp' = [resp EXCEPT ![w] = response]
    /\ loc' = [loc EXCEPT ![w] = locals]

Goto(w, statement, locals) ==
    /\ pc' = [pc EXCEPT ![w] = statement]
    /\ loc' = [loc EXCEPT ![w] = locals]
    /\ UNCHANGED resp

Issue(token, sub) == issued \cup {[token |-> token, sub |-> sub, at |-> now]}

(***************************************************************************)
(* POST /signup                                                            *)
(***************************************************************************)
SignUpRequest(w) ==
    \E email \in Emails, password \in Passwords :
        Receive(w, [NoReq EXCEPT !.op = "sign_up", !.email = email,
                                 !.password = password])

\* User.create_user up to the hash: the pre-check, `return None` on a hit.
SignUpCheck(w) ==
    /\ pc[w] = "su_check"
    /\ LET user == UserRepository_get_by_email(users, req[w].email)
       IN  IF user # Absent
               THEN Finish(w,
                        try_except(HTTPException(HTTP_400_BAD_REQUEST,
                                                 "Email already registered")),
                        [loc[w] EXCEPT !.ret = None])
           ELSE \E salt \in Salts :
                    Goto(w, "su_insert",
                         [loc[w] EXCEPT
                             !.hashed = pwd_hash(req[w].password, salt)])
    /\ UNCHANGED <<now, tz, users, posts, nextPost, cache, req, nreq, issued,
                   registered, checked, hist>>

\* UserRepository.create, then the token of the new user.
SignUpInsert(w) ==
    /\ pc[w] = "su_insert"
    /\ LET r == UserRepository_create(users, req[w].email, loc[w].hashed)
           token == create_token([sub |-> r.user.id], now, tz)
       IN  IF r.error # None
               THEN /\ Finish(w, try_except(r.error),
                              [loc[w] EXCEPT !.ret = r.error])
                    /\ UNCHANGED <<users, issued, registered>>
           ELSE /\ users' = r.table
                /\ issued' = Issue(token, r.user.id)
                /\ registered' =
                       IF req[w].email \notin DOMAIN registered
                             \/ registered[req[w].email] # None
                           THEN registered
                       ELSE [registered EXCEPT
                                ![req[w].email] = req[w].password]
                /\ Finish(w,
                       Response(HTTP_201_CREATED, [access_token |-> token]),
                       [loc[w] EXCEPT !.ret = "User", !.user = r.user])
    /\ UNCHANGED <<now, tz, posts, nextPost, cache, req, nreq, checked, hist>>

(***************************************************************************)
(* POST /login                                                             *)
(***************************************************************************)
LoginRequest(w) ==
    \E email \in Emails, password \in Passwords :
        Receive(w, [NoReq EXCEPT !.op = "login", !.email = email,
                                 !.password = password])

LoginVerify(w) ==
    /\ pc[w] = "li_verify"
    /\ LET user == UserRepository_get_by_email(users, req[w].email)
           is_valid == User_verify_credentials(user, req[w].password)
           locals == [loc[w] EXCEPT !.user = user, !.ret = is_valid]
       IN  IF is_valid # "True"
               THEN Finish(w,
                        try_except(HTTPException(HTTP_401_UNAUTHORIZED,
                            "Either email or password are incorrect")),
                        locals)
           ELSE Goto(w, "li_token", locals)
    /\ UNCHANGED <<now, tz, users, posts, nextPost, cache, req, nreq, issued,
                   registered, checked, hist>>

LoginToken(w) ==
    /\ pc[w] = "li_token"
    /\ LET user == UserRepository_get_by_email(users, req[w].email)
           token == create_token([sub |-> user.id], now, tz)
       IN  IF user = Absent
               THEN /\ Finish(w, try_except("AttributeError"), loc[w])
                    /\ UNCHANGED issued
           ELSE /\ issued' = Issue(token, user.id)
                /\ Finish(w, Response(HTTP_200_OK, [access_token |-> token]),
                          [loc[w] EXCEPT !.user = user])
    /\ UNCHANGED <<now, tz, users, posts, nextPost, cache, req, nreq,
                   registered, checked, hist>>

(***************************************************************************)
(* POST /add_post                                                          *)
(***************************************************************************)
AddPostRequest(w) ==
    /\ nextPost + Cardinality({v \in Workers : pc[v] = "ap_insert"}) < MaxPosts
    /\ \E token \in Tokens, size \in Sizes, text \in Texts :
           Receive(w, [NoReq EXCEPT !.op = "add_post", !.token = token,
                                    !.size = size, !.text = text])

AddPostInsert(w) ==
    /\ pc[w] = "ap_insert"
    /\ LET user_id == get_user_id(req[w].token, now)
           r == PostRepository_create(posts, users, nextPost + 1, user_id,
                                      req[w].text)
           locals == [loc[w] EXCEPT !.user_id = user_id, !.post = r.post]
       IN  IF r.error # None
               THEN /\ Finish(w, try_except(r.error), locals)
                    /\ UNCHANGED <<posts, nextPost, hist>>
           ELSE /\ posts' = r.table
                /\ nextPost' = nextPost + 1
                /\ hist' = [hist EXCEPT !.owner =
                               @ \cup {[id |-> r.post.id, user_id |-> user_id]}]
                /\ Goto(w, "ap_clear", locals)
    /\ UNCHANGED <<now, tz, users, cache, req, nreq, issued, registered,
                   checked>>

\* A mutant of AddPostClear: only the writer's own listing is invalidated.
AddPostClearOwnKey(w) ==
    /\ pc[w] = "ap_clear"
    /\ cache' = cache_pop(cache, hashkey(loc[w].user_id))
    /\ Finish(w, Response(HTTP_200_OK, [post_id |-> loc[w].post.id]), loc[w])
    /\ UNCHANGED <<now, tz, users, posts, nextPost, req, nreq, issued,
                   registered, checked, hist>>

AddPostClear(w) ==
    /\ pc[w] = "ap_clear"
    /\ cache' = cache_clear(cache)
    /\ Finish(w, Response(HTTP_200_OK, [post_id |-> loc[w].post.id]), loc[w])
    /\ UNCHANGED <<now, tz, users, posts, nextPost, req, nreq, issued,
                   registered, checked, hist>>

(***************************************************************************)
(* GET /get_list_of_posts                                                  *)
(***************************************************************************)
GetListRequest(w) ==
    \E token \in Tokens :
        Receive(w, [NoReq EXCEPT !.op = "get_list_of_posts", !.token = token])

\* user_id, key, and the test `key in cache`.
GetListMember(w) ==
    /\ pc[w] = "gl_member"
    /\ LET user_id == get_user_id(req[w].token, now)
           key == hashkey(user_id)
           locals == [loc[w] EXCEPT !.user_id = user_id]
       IN  IF cache_contains(cache, key, now)
               THEN Goto(w, "gl_read", locals)
           ELSE Goto(w, "gl_query", locals)
    /\ UNCHANGED <<now, tz, users, posts, nextPost, cache, req, nreq, issued,
                   registered, checked, hist>>

\* `return cache[key]`: a key that left the cache since the test is a KeyError.
GetListRead(w) ==
    /\ pc[w] = "gl_read"
    /\ LET r == cache_getitem(cache, hashkey(loc[w].user_id), now)
       IN  IF r.error # None
               THEN Finish(w, try_except(r.error),
                           [loc[w] EXCEPT !.ret = r.error])
           ELSE Finish(w, Response(HTTP_200_OK, r.value),
                       [loc[w] EXCEPT !.ret = "hit"])
    /\ UNCHANGED <<now, tz, users, posts, nextPost, cache, req, nreq, issued,
                   registered, checked, hist>>

GetListQuery(w) ==
    /\ pc[w] = "gl_query"
    /\ Goto(w, "gl_store",
            [loc[w] EXCEPT !.list_of_posts =
                Post_get_list_of_posts(posts, loc[w].user_id)])
    /\ UNCHANGED <<now, tz, users, posts, nextPost, cache, req, nreq, issued,
                   registered, checked, hist>>

GetListStore(w) ==
    /\ pc[w] = "gl_store"
    /\ LET response == [list_of_posts |-> loc[w].list_of_posts]
       IN  /\ cache' = cache_setitem(cache, hashkey(loc[w].user_id), response,
                                     now)
           /\ hist' = [hist EXCEPT !.stored =
                          {h \in @ : h.key # hashkey(loc[w].user_id)}
                          \cup {[key |-> hashkey(loc[w].user_id), at |-> now]}]
           /\ Finish(w, Response(HTTP_200_OK, response),
                     [loc[w] EXCEPT !.ret = "miss"])
    /\ UNCHANGED <<now, tz, users, posts, nextPost, req, nreq, issued,
                   registered, checked>>

(***************************************************************************)
(* POST /delete_post                                                       *)
(***************************************************************************)
DeletePostRequest(w) ==
    \E token \in Tokens, id \in PostIds :
        Receive(w, [NoReq EXCEPT !.op = "delete_post", !.token = token,
                                 !.id = id])

\* A mutant of DeletePostFind: the cache is cleared before the outcome of the
\* lookup is known.
DeletePostFindClears(w) ==
    /\ pc[w] = "dp_find"
    /\ cache' = cache_clear(cache)
    /\ LET post == PostRepository_get_by_id(posts, req[w].id)
       IN  IF post = Absent
               THEN Finish(w,
                        try_except(HTTPException(HTTP_404_NOT_FOUND,
                                                 "No post matching ID")),
                        [loc[w] EXCEPT !.ret = "False"])
           ELSE Goto(w, "dp_delete", [loc[w] EXCEPT !.post = post])
    /\ UNCHANGED <<now, tz, users, posts, nextPost, req, nreq, issued,
                   registered, checked, hist>>

\* A mutant of DeletePostFind: the lookup finds the caller's own posts only.
DeletePostFindOwned(w) ==
    /\ pc[w] = "dp_find"
    /\ LET post == PostRepository_get_by_id(posts, req[w].id)
       IN  IF post = Absent \/ post.user_id # get_user_id(req[w].token, now)
               THEN Finish(w,
                        try_except(HTTPException(HTTP_404_NOT_FOUND,
                                                 "No post matching ID")),
                        [loc[w] EXCEPT !.ret = "False"])
           ELSE Goto(w, "dp_delete", [loc[w] EXCEPT !.post = post])
    /\ UNCHANGED <<now, tz, users, posts, nextPost, cache, req, nreq, issued,
                   registered, checked, hist>>

\* PostRepository.delete up to `return False`: the lookup by id.
DeletePostFind(w) ==
    /\ pc[w] = "dp_find"
    /\ LET post == PostRepository_get_by_id(posts, req[w].id)
       IN  IF post = Absent
               THEN Finish(w,
                        try_except(HTTPException(HTTP_404_NOT_FOUND,
                                                 "No post matching ID")),
                        [loc[w] EXCEPT !.ret = "False"])
           ELSE Goto(w, "dp_delete", [loc[w] EXCEPT !.post = post])
    /\ UNCHANGED <<now, tz, users, posts, nextPost, cache, req, nreq, issued,
                   registered, checked, hist>>

\* db.delete(post); db.commit().  When a concurrent request deleted the row
\* since the lookup the DELETE matches no row: the ORM either warns and goes
\* on, or raises StaleDataError, by its version and the dialect's row count.
DeletePostDelete(w) ==
    /\ pc[w] = "dp_delete"
    /\ IF PostRepository_get_by_id(posts, loc[w].post.id) # Absent
           THEN /\ posts' = PostRepository_delete_row(posts, loc[w].post)
                /\ Goto(w, "dp_clear", [loc[w] EXCEPT !.ret = "True"])
       ELSE /\ UNCHANGED posts
            /\ \E outcome \in {"warning", "StaleDataError"} :
                   IF outcome = "warning"
                       THEN Goto(w, "dp_clear", [loc[w] EXCEPT !.ret = "True"])
                   ELSE Finish(w, try_except(outcome),
                               [loc[w] EXCEPT !.ret = outcome])
    /\ UNCHANGED <<now, tz, users, nextPost, cache, req, nreq, issued,
                   registered, checked, hist>>

DeletePostClear(w) ==
    /\ pc[w] = "dp_clear"
    /\ cache' = cache_clear(cache)
    /\ Finish(w, Response(HTTP_200_OK, [success |-> req[w].id]), loc[w])
    /\ UNCHANGED <<now, tz, users, posts, nextPost, req, nreq, issued,
                   registered, checked, hist>>

(***************************************************************************)
(* The service under concurrent requests                                   *)
(***************************************************************************)
Next ==
    \E w \in Workers :
        \/ SignUpRequest(w) \/ SignUpCheck(w) \/ SignUpInsert(w)
        \/ LoginRequest(w) \/ LoginVerify(w) \/ LoginToken(w)
        \/ AddPostRequest(w) \/ AddPostInsert(w) \/ AddPostClear(w)
        \/ GetListRequest(w) \/ GetListMember(w) \/ GetListRead(w)
        \/ GetListQuery(w) \/ GetListStore(w)
        \/ DeletePostRequest(w) \/ DeletePostFind(w) \/ DeletePostDelete(w)
        \/ DeletePostClear(w)

Spec == Init /\ [][Next]_vars

(***************************************************************************)
(* The token service on its own, over time: tokens are issued, time        *)
(* passes, and clients present issued, altered and forged tokens.          *)
(***************************************************************************)
InitToken ==
    /\ now = 0
    /\ tz \in TokenTzOffsets
    /\ users = <<>>
    /\ posts = <<>>
    /\ nextPost = 0
    /\ cache = <<>>
    /\ pc = [w \in Workers |-> "idle"]
    /\ req = [w \in Workers |-> NoReq]
    /\ loc = [w \in Workers |-> NoLoc]
    /\ resp = [w \in Workers |-> NoResp]
    /\ nreq = 0
    /\ issued = {}
    /\ registered = [e \in Emails |-> None]
    /\ checked = NoCheck
    /\ hist = NoHist

Tick(d) ==
    /\ now + d <= MaxTime
    /\ now' = now + d
    /\ UNCHANGED <<tz, users, posts, nextPost, cache, pc, req, loc, resp, nreq,
                   issued, registered, checked, hist>>

\* JWT.create_token({"sub": S}).
TokenIssue(sub) ==
    /\ Cardinality(issued) < MaxTokens
    /\ issued' = Issue(create_token([sub |-> sub], now, tz), sub)
    /\ UNCHANGED <<now, tz, users, posts, nextPost, cache, pc, req, loc, resp,
                   nreq, checked>>
    /\ UNCHANGED <<registered, hist>>

\* What a client can make of a token it holds without the key: the token,
\* its claims altered under the old signature, the claims signed again with
\* another key or algorithm, and a string that is no token.
Presentable(token) ==
    {token,
     [token EXCEPT !.payload.exp = token.payload.exp + 3600],
     jwt_encode(token.payload, "another key", JWT_ALGORITHM),
     jwt_encode(token.payload, JWT_KEY, "none"),
     [token EXCEPT !.wf = FALSE]}
    \cup {[token EXCEPT !.payload.sub = s] : s \in Subjects}

\* JWT.validate_token and JWT.get_user_id on a presented token.
TokenPresent(token) ==
    /\ checked' = [seen |-> TRUE, token |-> token, at |-> now,
                   valid |-> validate_token(token, now),
                   user_id |-> get_user_id(token, now)]
    /\ UNCHANGED <<now, tz, users, posts, nextPost, cache, pc, req, loc, resp,
                   nreq, issued, registered, hist>>

NextToken ==
    \/ \E d \in TickSteps : Tick(d)
    \/ \E sub \in Subjects : TokenIssue(sub)
    \/ \E i \in issued : \E token \in Presentable(i.token) : TokenPresent(token)
    \/ TokenPresent(NoToken)

SpecToken == InitToken /\ [][NextToken]_vars

(***************************************************************************)
(* The service over time: one worker serves requests one statement at a    *)
(* time while the clock advances between any two statements, so that cache *)
(* entries and tokens age, also between the gate and the handler.          *)
(***************************************************************************)
MaxTimedRequests == 3
TimeSteps == {200, JWT_TOKEN_INVALIDATION_TIME}
TimeWorkers == {"w1"}

\* The requests of one client: it signs up, and posts, lists and deletes
\* with the tokens it was handed.
TimedRequests ==
    {[NoReq EXCEPT !.op = "sign_up", !.email = "a@x.com",
                   !.password = "pw1"]}
    \cup {[NoReq EXCEPT !.op = "add_post", !.token = token,
                        !.size = PAYLOAD_MAX_SIZE, !.text = text] :
              token \in Tokens, text \in Texts}
    \cup {[NoReq EXCEPT !.op = "get_list_of_posts", !.token = token] :
              token \in Tokens}
    \cup {[NoReq EXCEPT !.op = "delete_post", !.token = token, !.id = id] :
              token \in Tokens, id \in PostIds}

TimedRequest(w) ==
    /\ nreq < MaxTimedRequests
    /\ \E request \in TimedRequests :
           /\ request.op = "add_post" => nextPost < MaxPosts
           /\ Accept(w, request)

NextTime ==
    \/ \E d \in TimeSteps : Tick(d)
    \/ \E w \in TimeWorkers :
           \/ TimedRequest(w)
           \/ SignUpCheck(w) \/ SignUpInsert(w)
           \/ AddPostInsert(w) \/ AddPostClear(w)
           \/ GetListMember(w) \/ GetListRead(w)
           \/ GetListQuery(w) \/ GetListStore(w)
           \/ DeletePostFind(w) \/ DeletePostDelete(w) \/ DeletePostClear(w)

SpecTime == Init /\ [][NextTime]_vars

(***************************************************************************)
(* The cache under many users: more users than the cache has room for sign *)
(* up one after the other, and each asks for its listing once, with no     *)
(* write in between.                                                       *)
(***************************************************************************)
Email(n) == "user" \o ToString(n) \o "@x.com"

Newest == users[Len(users)]

\* The next request of the population: the listing of the newest user when
\* it is not cached, the sign up of one more user otherwise.
CacheRequests ==
    IF users # <<>> /\ ~cache_contains(cache, hashkey(Newest.id), now)
        THEN {[NoReq EXCEPT !.op = "get_list_of_posts", !.token = token] :
                  token \in {t \in Tokens : get_user_id(t, now) = Newest.id}}
    ELSE IF Len(users) < MaxUsers
        THEN {[NoReq EXCEPT !.op = "sign_up", !.email = Email(Len(users) + 1),
                            !.password = "pw1"]}
    ELSE {}

CacheRequest(w) ==
    /\ nreq < MaxUsers + MaxUsers
    /\ \E request \in CacheRequests : Accept(w, request)

NextCache ==
    \E w \in TimeWorkers :
        \/ CacheRequest(w)
        \/ SignUpCheck(w) \/ SignUpInsert(w)
        \/ GetListMember(w) \/ GetListQuery(w) \/ GetListStore(w)

SpecCache == Init /\ [][NextCache]_vars

(***************************************************************************)
(* Properties                                                              *)
(***************************************************************************)
Done(w, op) == pc[w] = "done" /\ req[w].op = op

PassedGate(w) ==
    resp[w].status \notin {HTTP_401_UNAUTHORIZED,
                           HTTP_413_REQUEST_ENTITY_TOO_LARGE}

UnexpectedFailures == {"IntegrityError", "KeyError", "StaleDataError",
                       "AttributeError"}

\* C1: every error kind has a status of its own at the handlers: a sign up
\* with a registered email answers 400, a login with bad credentials 401, a
\* delete of an absent post 404, an oversized add_post 413, and 500 is
\* answered to unexpected failures only.
C1_StatusPerErrorKind ==
    \A w \in Workers :
        /\ Done(w, "sign_up") /\ loc[w].ret = None
               => resp[w].status = HTTP_400_BAD_REQUEST
        /\ Done(w, "login") /\ loc[w].ret = "False"
               => resp[w].status = HTTP_401_UNAUTHORIZED
        /\ Done(w, "delete_post") /\ loc[w].ret = "False"
               => resp[w].status = HTTP_404_NOT_FOUND
        /\ Done(w, "add_post") /\ validate_token(req[w].token, now)
                /\ req[w].size > PAYLOAD_MAX_SIZE
               => resp[w].status = HTTP_413_REQUEST_ENTITY_TOO_LARGE
        /\ pc[w] = "done" /\ resp[w].status = HTTP_500_INTERNAL_SERVER_ERROR
               => loc[w].ret \in UnexpectedFailures

Links(c) == {c[i] : i \in 1..Len(c)}

WriteCompletes(w) ==
    /\ pc[w] \in {"ap_clear", "dp_clear"}
    /\ pc'[w] = "done"
    /\ resp'[w].status = HTTP_200_OK

\* C2: when a successful add_post or delete_post completes, no listing that
\* was cached before it is left in the cache, for any user: the membership
\* test of the next get_list_of_posts fails for every user, so the listing
\* is read from storage.
C2_WriteDropsEveryCachedListing ==
    [][\A w \in Workers :
          WriteCompletes(w) =>
              /\ Links(cache) \cap Links(cache') = {}
              /\ \A i \in 1..Len(users) :
                     ~cache_contains(cache', hashkey(users[i].id), now')]_vars

\* C2's case: a listing was stored in the cache by one request and a write
\* completed by another has emptied the cache since.
C2_Witness ==
    \E w, v \in Workers :
        /\ Done(w, "add_post") /\ resp[w].status = HTTP_200_OK
        /\ Done(v, "get_list_of_posts") /\ loc[v].ret = "miss"
        /\ cache = <<>>

\* C3: a get_list_of_posts request that passed the gate completes with a
\* listing, also when a clear() of a concurrent add_post or delete_post
\* falls between its membership test, its read and its store.
C3_ListingSurvivesConcurrentClear ==
    \A w \in Workers :
        Done(w, "get_list_of_posts") /\ PassedGate(w)
            => resp[w].status = HTTP_200_OK

\* C4: a create_user(e, p) whose insert finds no user with e stores the new
\* user and returns it; once a sign up of e has succeeded, every create_user
\* for e that starts returns None at its pre-check, and stores nothing.
C4_FirstRegisterSucceedsLaterConflict ==
    [][\A w \in Workers :
          /\ pc[w] = "su_check" /\ pc'[w] # "su_check"
                /\ registered[req[w].email] # None
                => /\ pc'[w] = "done"
                   /\ loc'[w].ret = None
                   /\ users' = users
          /\ pc[w] = "su_insert" /\ pc'[w] = "done"
                /\ UserRepository_get_by_email(users, req[w].email) = Absent
                => /\ loc'[w].ret = "User"
                   /\ loc'[w].user.email = req[w].email
                   /\ users' = Append(users, loc'[w].user)
                   /\ registered'[req[w].email] = req[w].password]_vars

\* C4's case: a sign up of an email answered the conflict signal after
\* another sign up of the same email had stored the user.
C4_Witness ==
    \E w \in Workers :
        /\ Done(w, "sign_up") /\ loc[w].ret = None /\ loc[w].hashed = Absent
        /\ registered[req[w].email] # None
        /\ Len(users) = 1

\* C5: of two concurrent create_user calls for one email that both passed
\* the pre-check, the one that loses at the insert returns the conflict
\* signal (None), as a failed pre-check does.
C5_LostInsertIsConflict ==
    \A w \in Workers :
        Done(w, "sign_up") /\ loc[w].hashed # Absent /\ loc[w].user = Absent
            => loc[w].ret = None

\* C6: once register(e, p) has succeeded, verify_credentials(e, q) returns
\* true exactly when q = p, whatever happened in between, and no stored row
\* (so no stored hash) is ever replaced.
C6_AuthenticateIffRegisteredPassword ==
    [][/\ \A w \in Workers :
            pc[w] = "li_verify" /\ pc'[w] # "li_verify"
                /\ registered[req[w].email] # None
                => (loc'[w].ret = "True"
                        <=> req[w].password = registered[req[w].email])
       /\ \A i \in 1..Len(users) : Len(users') >= i /\ users'[i] = users[i]
      ]_vars

\* C6's case: a sign up of e with another password was turned down, and a
\* login with the registered password then passed verification.
C6_Witness ==
    \E w, v \in Workers :
        /\ Done(v, "sign_up") /\ loc[v].ret # "User"
        /\ registered[req[v].email] # None
        /\ req[v].password # registered[req[v].email]
        /\ Done(w, "login") /\ req[w].email = req[v].email
        /\ req[w].password = registered[req[w].email]
        /\ loc[w].ret = "True"

\* C7: a login with an unknown email and a login with a known email and a
\* wrong password, the same password given, end alike: verify_credentials
\* returns the same value and the handler answers the same response.
C7_UnknownEmailAsWrongPassword ==
    \A w, v \in Workers :
        /\ Done(w, "login") /\ loc[w].user = Absent
        /\ Done(v, "login") /\ loc[v].user # Absent /\ loc[v].ret # "True"
        /\ req[w].password = req[v].password
        => loc[w].ret = loc[v].ret /\ resp[w] = resp[v]

\* C7's case: both failed logins have been served.
C7_Witness ==
    \E w, v \in Workers :
        /\ Done(w, "login") /\ loc[w].user = Absent
        /\ Done(v, "login") /\ loc[v].user # Absent /\ loc[v].ret = "False"
        /\ req[w].password = req[v].password

IssuedTokens == {i.token : i \in issued}

\* C8: a token issued for subject S and presented at once is valid, and
\* get_user_id returns S.
C8_IssueThenVerifyRoundTrip ==
    \A i \in issued :
        checked.seen /\ checked.token = i.token /\ checked.at = i.at
            => checked.valid /\ checked.user_id = i.sub

\* C9: a token issued at time t is valid at every time before t + TTL and
\* invalid at every time after t + TTL.
C9_ValidExactlyUntilTTL ==
    \A i \in issued :
        checked.seen /\ checked.token = i.token
            => /\ checked.at < i.at + JWT_TOKEN_INVALIDATION_TIME
                    => checked.valid
               /\ checked.at > i.at + JWT_TOKEN_INVALIDATION_TIME
                    => ~checked.valid

\* C10: a presented token that the service did not issue (malformed, signed
\* with another key or algorithm, or altered), or whose expiration has
\* passed, gets the answers False and None, the same for every such token.
C10_BadTokenIsRejectedUniformly ==
    checked.seen
        /\ (checked.token \notin IssuedTokens
                \/ checked.token.payload.exp <= checked.at)
        => checked.valid = FALSE /\ checked.user_id = None

\* C10's case: an issued token was presented after its expiration and
\* turned down.
C10_Witness ==
    /\ checked.seen
    /\ checked.token \in IssuedTokens
    /\ checked.token.payload.exp <= checked.at
    /\ checked.at > 0
    /\ ~checked.valid

Created(post_id) == \E h \in hist.owner : h.id = post_id

\* C11: a delete that finds no post with the id (never created, or already
\* deleted) returns false and removes nothing; the delete of an existing
\* post returns true and removes that row only; once a created post is gone
\* every later get on its id returns absent, so that a later delete of the
\* same id returns false.
C11_DeleteOnceThenAbsent ==
    [][/\ \A w \in Workers :
              /\ pc[w] = "dp_find" /\ pc'[w] # pc[w]
                  /\ PostRepository_get_by_id(posts, req[w].id) = Absent
                  => /\ pc'[w] = "done"
                     /\ loc'[w].ret = "False"
                     /\ posts' = posts
              /\ pc[w] = "dp_delete" /\ pc'[w] # pc[w]
                  /\ PostRepository_get_by_id(posts, loc[w].post.id) # Absent
                  => /\ loc'[w].ret = "True"
                     /\ PostRepository_get_by_id(posts', loc[w].post.id)
                            = Absent
                     /\ \A id \in PostIds \ {loc[w].post.id} :
                            PostRepository_get_by_id(posts', id)
                                = PostRepository_get_by_id(posts, id)
       /\ \A id \in PostIds :
              Created(id) /\ PostRepository_get_by_id(posts, id) = Absent
                  => PostRepository_get_by_id(posts', id) = Absent]_vars

\* C11's case: a post was created, one delete of its id returned true and
\* another delete of the same id returned false, and the post is gone.
C11_Witness ==
    \E w, v \in Workers :
        /\ Done(w, "delete_post") /\ loc[w].ret = "True"
        /\ Done(v, "delete_post") /\ loc[v].ret = "False"
        /\ req[w].id = req[v].id
        /\ Created(req[w].id)
        /\ PostRepository_get_by_id(posts, req[w].id) = Absent

Owner(post_id) == (CHOOSE h \in hist.owner : h.id = post_id).user_id

\* C12: delete_post checks no ownership: a request that passed the token
\* gate goes on to delete the post exactly when a post with the id exists,
\* whoever the token's subject is, and a delete that went on answers 200
\* also when the subject is not the owner of the post.
C12_DeleteIgnoresOwner ==
    [][\A w \in Workers :
          /\ pc[w] = "dp_find" /\ pc'[w] # pc[w]
              => /\ PassedGate(w)
                 /\ (pc'[w] = "dp_delete")
                        <=> (PostRepository_get_by_id(posts, req[w].id)
                                 # Absent)
          /\ pc[w] = "dp_clear" /\ pc'[w] # pc[w]
              => resp'[w].status = HTTP_200_OK]_vars

\* C12's case: a user's post was deleted by a request carrying the valid
\* token of another user.
C12_Witness ==
    \E w \in Workers :
        /\ Done(w, "delete_post") /\ loc[w].ret = "True"
        /\ resp[w].status = HTTP_200_OK
        /\ Created(req[w].id)
        /\ get_user_id(req[w].token, now) # None
        /\ get_user_id(req[w].token, now) # Owner(req[w].id)
        /\ PostRepository_get_by_id(posts, req[w].id) = Absent

\* C15: no two stored users have the same email, also after sign_up
\* requests for one email ran concurrently.
C15_EmailsAreUnique ==
    \A i, j \in 1..Len(users) :
        users[i].email = users[j].email => i = j

\* C15's case: two sign_up requests for one email both passed the pre-check
\* before either inserted; one inserted the row and the other's insert was
\* refused by the unique column.
C15_Witness ==
    \E w, v \in Workers :
        /\ Done(w, "sign_up") /\ loc[w].ret = "User"
        /\ Done(v, "sign_up") /\ loc[v].ret = "IntegrityError"
        /\ req[w].email = req[v].email
        /\ Cardinality({i \in 1..Len(users) :
                            users[i].email = req[w].email}) = 1

Range(seq) == {seq[i] : i \in 1..Len(seq)}

Listed(w) == Done(w, "get_list_of_posts") /\ resp[w].status = HTTP_200_OK

OwnedRows(table, user_id) == {row \in Range(table) : row.user_id = user_id}

GatedOps == {"add_post", "get_list_of_posts", "delete_post"}

InHandler(w) == pc[w] \notin {"idle", "done"}

Rejected(w) ==
    /\ pc[w] = "done" /\ req[w].op \in GatedOps
    /\ resp[w].status \in {HTTP_401_UNAUTHORIZED,
                           HTTP_413_REQUEST_ENTITY_TOO_LARGE}

\* C17: a request rejected by a gate has no effect: an add_post,
\* get_list_of_posts or delete_post whose token fails verification, and an
\* add_post whose body exceeds PAYLOAD_MAX_SIZE, is answered 401 or 413 at
\* once and never enters its handler; users, posts and the cache are left
\* as they were by the receipt of any request and are changed by steps of
\* handlers only.
C17_RejectedRequestHasNoEffect ==
    [][/\ \A w \in Workers :
              req'[w].op \in GatedOps =>
                  /\ ~validate_token(req'[w].token, now')
                         => Rejected(w)'
                             /\ resp'[w].status = HTTP_401_UNAUTHORIZED
                  /\ validate_token(req'[w].token, now')
                         /\ req'[w].op = "add_post"
                         /\ req'[w].size > PAYLOAD_MAX_SIZE
                         => Rejected(w)'
                             /\ resp'[w].status
                                    = HTTP_413_REQUEST_ENTITY_TOO_LARGE
       /\ nreq' # nreq => UNCHANGED <<users, posts, nextPost, cache>>
       /\ <<users, posts, nextPost, cache>>' # <<users, posts, nextPost, cache>>
              => \E w \in Workers : InHandler(w) /\ pc'[w] # pc[w]]_vars

\* C17's case: a delete_post for a stored post was rejected for its token
\* and an add_post for its size, and the post is still stored.
C17_Witness ==
    \E w, v \in Workers :
        /\ Rejected(w) /\ req[w].op = "delete_post"
        /\ resp[w].status = HTTP_401_UNAUTHORIZED
        /\ PostRepository_get_by_id(posts, req[w].id) # Absent
        /\ Rejected(v) /\ req[v].op = "add_post"
        /\ resp[v].status = HTTP_413_REQUEST_ENTITY_TOO_LARGE

WriteInProgress ==
    \E w \in Workers :
        pc[w] \in {"ap_insert", "ap_clear", "dp_find", "dp_delete", "dp_clear"}

\* C18: under concurrent requests, whenever no add_post or delete_post is in
\* progress, every listing the cache holds for a user and still serves (its
\* time to live has not run out) equals the user's current posts in storage.
C18_CachedListingIsCurrent ==
    ~WriteInProgress =>
        \A i \in 1..Len(users) :
            LET key == hashkey(users[i].id)
            IN  cache_contains(cache, key, now) =>
                    cache_getitem(cache, key, now).value.list_of_posts
                        = Post_get_list_of_posts(posts, users[i].id)

\* The time a key was last stored in the cache at, as a set: empty when the
\* key was never stored.
StoredAt(key) == {h.at : h \in {g \in hist.stored : g.key = key}}

\* C13: a cache entry stored at time t is absent to every lookup made after
\* t + 300 s, cleared or not: the membership test of get_list_of_posts
\* fails and the handler reads storage again; no listing is served from an
\* entry older than that.
C13_EntryIsAbsentAfterTTL ==
    [][\A w \in Workers :
          LET key == hashkey(get_user_id(req[w].token, now))
          IN  /\ pc[w] = "gl_member" /\ pc'[w] # pc[w]
                  /\ (\A t \in StoredAt(key) : now > t + CACHE_TIME_TO_LIVE)
                  => pc'[w] = "gl_query"
              /\ pc[w] = "gl_read" /\ pc'[w] # pc[w]
                  /\ resp'[w].status = HTTP_200_OK
                  => \E t \in StoredAt(hashkey(loc[w].user_id)) :
                         now < t + CACHE_TIME_TO_LIVE]_vars

\* C13's case: a listing was stored, more than its time to live went by
\* with no write clearing the cache, and the next lookup of the key failed
\* with the old entry still held: the handler is about to read storage.
C13_Witness ==
    \E w \in Workers :
        /\ pc[w] = "gl_query"
        /\ \E link \in Links(cache) :
               /\ link.key = hashkey(loc[w].user_id)
               /\ link.expires < now
        /\ \E t \in StoredAt(hashkey(loc[w].user_id)) :
               now > t + CACHE_TIME_TO_LIVE

\* C19: for every add_post and get_list_of_posts request that passed the
\* token gate, the identity the handler acts on (owner of the new post,
\* cache key, listing query) is the subject of the token the gate validated
\* and is never absent, also when the token expires between the gate's
\* check and the handler's own decode.
C19_HandlerIdentityIsGateSubject ==
    \A w \in Workers :
        /\ req[w].op \in {"add_post", "get_list_of_posts"}
        /\ PassedGate(w)
        /\ pc[w] \in {"ap_clear", "gl_read", "gl_query", "gl_store", "done"}
        => /\ loc[w].user_id # None
           /\ loc[w].user_id = req[w].token.payload.sub

\* C20: the cache is cleared only by a successful write: a delete_post whose
\* lookup finds no post, and an add_post whose insert fails, leave the
\* stored posts and every cache entry as they were, and each clear() is
\* run by an add_post that inserted its post or a delete_post whose
\* PostRepository.delete returned true.
C20_OnlySuccessfulWriteClears ==
    [][/\ \A w \in Workers :
              /\ pc[w] = "dp_find" /\ pc'[w] # pc[w]
                  /\ PostRepository_get_by_id(posts, req[w].id) = Absent
                  => UNCHANGED <<posts, cache>>
              /\ pc[w] = "ap_insert" /\ pc'[w] = "done"
                  => /\ UNCHANGED <<posts, cache>>
                     /\ resp'[w].status = HTTP_500_INTERNAL_SERVER_ERROR
       /\ Links(cache) \ Links(cache') # {}
              => \/ \E w \in Workers :
                        /\ pc[w] = "ap_clear" /\ pc'[w] = "done"
                        /\ PostRepository_get_by_id(posts, loc[w].post.id)
                               = loc[w].post
                 \/ \E w \in Workers :
                        /\ pc[w] = "dp_clear" /\ pc'[w] = "done"
                        /\ loc[w].ret = "True"
                 \/ \E w \in Workers :
                        /\ pc[w] = "gl_store" /\ pc'[w] = "done"
                        /\ cache' # <<>>]_vars

\* C20's case: with a listing in the cache, a delete_post for an id that is
\* not stored was answered and the cached listing is still there.
C20_Witness ==
    \E w \in Workers :
        /\ Done(w, "delete_post") /\ loc[w].ret = "False"
        /\ PassedGate(w)
        /\ cache # <<>>

\* C14: the cache never holds more than its configured maximum of 100
\* entries, however many distinct users ask for their listing between two
\* clears.
C14_CacheHoldsAtMostLimit ==
    /\ Len(cache) <= CACHE_ITEM_LIMIT
    /\ \A i, j \in 1..Len(cache) : cache[i].key = cache[j].key => i = j

\* C14's case: more users than the cache has room for have been served
\* their listing with no clear in between: the cache is full, the newest
\* listing is in it and the oldest has made room.
C14_Witness ==
    /\ Len(users) > CACHE_ITEM_LIMIT
    /\ Len(cache) = CACHE_ITEM_LIMIT
    /\ cache_contains(cache, hashkey(Newest.id), now)
    /\ ~cache_contains(cache, hashkey(users[1].id), now)
    /\ hashkey(users[1].id) \in {h.key : h \in hist.stored}

====
